---- MODULE Spec2Model ----
(***************************************************************************)
(* FileMaker ODBC gateway (filemaker_mcp_server.py) and report job         *)
(* (filemaker_reports.py).                                                 *)
(*                                                                         *)
(* The module models two programs of the repository.  `program` says which *)
(* one runs: the MCP server, whose handlers call_tool / read_resource are  *)
(* invoked one request at a time, or the report job run_reports.           *)
(*                                                                         *)
(* The ODBC driver (pyodbc) is the environment: whether a connect or a     *)
(* statement succeeds, and what a statement returns, are inputs drawn with *)
(* \E in each action.  A commit or close on an open handle succeeds.       *)
(*                                                                         *)
(* Text is a sequence of fragments (Python string concatenation is         *)
(* sequence concatenation); a Python dict is a function whose domain is    *)
(* its key set; an ordered dict (tool argument `data`) is a sequence of    *)
(* <<key, value>> pairs.                                                   *)
(***************************************************************************)
EXTENDS Integers, Sequences, FiniteSets, TLC

VARIABLES
    program,        \* "server" or "reports": which program of the repository runs
    connections,    \* server registry: database name -> instance id, 0 = no entry
    fm_connections, \* FileMakerReports.connections: name -> handle id, 0 = no entry
    openHandles,    \* driver side: database name -> set of open handle ids
    connects,       \* driver side: database name -> number of successful connects
    pending,        \* driver side: database name -> tools whose executed statement is uncommitted
    returned,       \* history: database name -> instances get_connection has returned
    reconnects,     \* history: names for which the driver connect was called again after a success
    closes,         \* driver side: database name -> number of close calls on its handles
    cursors,        \* driver side: number of cursors open on the gateway's connections
    pc,             \* position in run_reports; in the server, "done" once main has returned
    last,           \* the last request handled and its response
    stored,         \* database side: database name -> the rows of its table T1
    inserted,       \* history: database name -> the data insert_record reported inserted
    tasks,          \* event loop: request id -> the request and how far call_tool is with it
    running         \* event loop: the request whose handler holds the loop, 0 = none

vars == <<program, connections, fm_connections, openHandles, connects, pending,
          returned, reconnects, closes, cursors, pc, last, stored, inserted, tasks,
          running>>

----------------------------------------------------------------------------
(* Bounds of the model *)

\* how many of the nine catalog names no handler pins are kept in the model
MaxUnpinned == 0
\* the largest number of rows a statement produces
MaxRows == 2
\* the largest explicit limit argument
MaxLimit == 1
\* the driver refuses a connect for a name once this many have succeeded
MaxConnects == 2
\* the largest number of rows the table T1 of a database holds
MaxStored == 2
\* how many requests the client submits to the event loop
MaxTasks == 2

----------------------------------------------------------------------------
(* Helpers *)

Range(s) == {s[i] : i \in 1..Len(s)}

Min(a, b) == IF a < b THEN a ELSE b

RECURSIVE SelectNames(_, _, _)
\* the names of s that are in keep, or among the first n names outside keep
SelectNames(s, keep, n) ==
    IF s = <<>> THEN <<>>
    ELSE IF Head(s) \in keep THEN <<Head(s)>> \o SelectNames(Tail(s), keep, n)
    ELSE IF n > 0 THEN <<Head(s)>> \o SelectNames(Tail(s), keep, n - 1)
    ELSE SelectNames(Tail(s), keep, n)

RECURSIVE Join(_, _)
\* sep.join(parts), as a sequence of fragments; each part is itself a sequence of fragments
Join(sep, parts) ==
    IF parts = <<>> THEN <<>>
    ELSE IF Len(parts) = 1 THEN parts[1]
    ELSE parts[1] \o <<sep>> \o Join(sep, Tail(parts))

\* dict.get(key, default)
Get(d, key, default) == IF key \in DOMAIN d THEN d[key] ELSE default

\* the empty dict
EmptyDict == [k \in {} |-> 0]

----------------------------------------------------------------------------
(* Program constants *)

\* FILEMAKER_DATABASES as written in the source
CatalogSource ==
    <<"Appointments", "CLOrders", "Dispenses", "Email", "Lookups", "Open",
      "OpenAdmin", "OpenMngr", "Patients", "ProdPrices", "Timecards", "Transactions">>

\* the names the domain handlers pin: get_connection("Patients") and the like
PinnedDatabases == {"Appointments", "Patients", "Transactions"}

\* The catalog the model iterates: the source's list, in the source's order, cut
\* down to the pinned names and the first MaxUnpinned others.  No handler tells
\* the nine other names apart.
FILEMAKER_DATABASES == SelectNames(CatalogSource, PinnedDatabases, MaxUnpinned)

DbNames == Range(FILEMAKER_DATABASES)

\* the names list_tools declares
ToolNames ==
    {"query", "list_tables", "describe_table", "insert_record", "update_record",
     "list_all_databases", "search_patients", "get_appointments", "get_transactions"}

\* inputSchema "required" of every tool
Required(name) ==
    CASE name = "query" -> {"database", "sql"}
      [] name = "list_tables" -> {"database"}
      [] name = "describe_table" -> {"database", "table"}
      [] name = "insert_record" -> {"database", "table", "data"}
      [] name = "update_record" -> {"database", "table", "data", "where"}
      [] name = "list_all_databases" -> {}
      [] name = "search_patients" -> {"search_term"}
      [] name = "get_appointments" -> {"date"}
      [] name = "get_transactions" -> {}
      [] OTHER -> {}

\* limit defaults of the handlers
DefaultLimit == 100
DefaultSearchLimit == 50

----------------------------------------------------------------------------
(* The ODBC driver *)

\* cursor.description of a SELECT: column names, possibly with a duplicate
Descriptions == {<<"a", "b">>, <<"a", "a">>}

\* value of column j in row i of a result set
Cell(i, j) == 10 * i + j

\* the rows a statement produces: n rows over the columns desc
ResultSet(desc, n) == [i \in 1..n |-> [j \in 1..Len(desc) |-> Cell(i, j)]]

\* what the driver does with one statement: ok = FALSE, it raises
ExecOutcomes ==
    {x \in [ok : BOOLEAN, desc : Descriptions, n : 0..MaxRows] :
        /\ ~x.ok => x.n = 0
        /\ x.n = 0 => x.desc = <<"a", "b">>}

\* the outcomes with distinct column names
PlainOutcomes == {x \in ExecOutcomes : x.desc = <<"a", "b">>}

\* cursor.tables(): catalog rows with their table_type
TableRowChoices ==
    {<<>>,
     <<[table_name |-> "T1", table_type |-> "TABLE"],
       [table_name |-> "V1", table_type |-> "VIEW"]>>}

TablesOutcomes ==
    {x \in [ok : BOOLEAN, rows : TableRowChoices] : ~x.ok => x.rows = <<>>}

\* cursor.columns(table=...): column rows
ColumnRowChoices ==
    {<<>>,
     <<[column_name |-> "c1", type_name |-> "VARCHAR", column_size |-> 10, nullable |-> 1],
       [column_name |-> "c2", type_name |-> "DECIMAL", column_size |-> 8, nullable |-> 0]>>}

ColumnsOutcomes ==
    {x \in [ok : BOOLEAN, rows : ColumnRowChoices] : ~x.ok => x.rows = <<>>}

\* a statement is a query when its text starts with SELECT; anything else changes data
IsSelect(stmt) == stmt # <<>> /\ stmt[1] = "SELECT"

\* cursor.fetchmany(size): up to size rows; -1 fetches all, other negatives none
fetchmany(rows, size) ==
    IF size = -1 THEN rows
    ELSE IF size <= 0 THEN <<>>
    ELSE SubSeq(rows, 1, Min(size, Len(rows)))

\* pyodbc.connect for database db: a fresh open handle, or an error
pyodbc_connect(S, db, ok) ==
    LET again == IF S.connects[db] > 0 THEN {db} ELSE {}
        T == [S EXCEPT !.reconnects = @ \cup again, !.drv = @ \cup {db}]
    IN  IF ok /\ S.connects[db] < MaxConnects
        THEN [ok |-> TRUE, handle |-> S.connects[db] + 1,
              S |-> [T EXCEPT !.connects[db] = @ + 1,
                              !.openHandles[db] = @ \cup {S.connects[db] + 1}]]
        ELSE [ok |-> FALSE, handle |-> 0, S |-> T]

\* connection.commit(): nothing executed on the handle stays uncommitted
commit(S, db) == [S EXCEPT !.pending[db] = {}, !.commits = @ + 1]

\* SQL NULL
Null == "<NULL>"

\* the columns of table T1, in the order SELECT * gives them
TableColumns == <<"k1", "k2">>

\* a statement is an INSERT when its text starts with INSERT INTO
IsInsert(stmt) == stmt # <<>> /\ stmt[1] = "INSERT INTO "

\* the column list of an INSERT: the names between " (" and ") VALUES ("
InsertColumns(stmt) ==
    LET p == CHOOSE i \in 1..Len(stmt) : stmt[i] = ") VALUES ("
    IN  SelectSeq(SubSeq(stmt, 4, p - 1), LAMBDA f : f # ", ")

\* the row an INSERT with bound parameters params stores: the i-th parameter in
\* the i-th column of the list, NULL in the columns the list leaves out
InsertedRow(stmt, params) ==
    LET cols == InsertColumns(stmt)
    IN  [c \in Range(TableColumns) |->
            IF \E i \in 1..Min(Len(cols), Len(params)) : cols[i] = c
            THEN params[CHOOSE i \in 1..Min(Len(cols), Len(params)) : cols[i] = c]
            ELSE Null]

\* whether a row satisfies the WHERE clause of a SELECT: the conditions
\* column = value follow " WHERE ", joined by " AND "
Matches(row, stmt) ==
    \A i \in 1..((Len(stmt) - 2) \div 4) : row[stmt[4 * i]] = stmt[4 * i + 2]

\* the rows of T1 a SELECT * ... WHERE gives, each as its values in column order
select(rows, stmt) ==
    LET hit == SelectSeq(rows, LAMBDA r : Matches(r, stmt))
    IN  [i \in 1..Len(hit) |-> [j \in 1..Len(TableColumns) |-> hit[i][TableColumns[j]]]]

\* the rows of a result set: those the database gave, or n rows of cells
Rows(ex) == IF "rows" \in DOMAIN ex THEN ex.rows ELSE ResultSet(ex.desc, ex.n)

\* cursor.execute of a statement that succeeded: a data-changing statement is
\* pending on the handle until a commit (pyodbc connects with autocommit off);
\* an INSERT adds its row to the table
executed(S, db, stmt, tool) ==
    IF IsSelect(stmt) THEN S
    ELSE IF IsInsert(stmt)
    THEN [S EXCEPT !.pending[db] = @ \cup {tool},
                   !.stored[db] = Append(@, InsertedRow(stmt, S.params))]
    ELSE [S EXCEPT !.pending[db] = @ \cup {tool}]

----------------------------------------------------------------------------
(* Calls.  A call takes the program state S and gives [ok, val, S]: ok = TRUE
   and the returned value, or ok = FALSE and the exception raised. *)

Return(S, v) == [ok |-> TRUE, val |-> v, S |-> S]

Raise(S, e) == [ok |-> FALSE, val |-> e, S |-> S]

KeyError(key) == <<"KeyError", key>>

\* dict(zip(columns, row)) as it would be if the first column of a name were kept
dict_zip_first_wins(columns, row) ==
    LET n == Min(Len(columns), Len(row))
        Cols == {columns[j] : j \in 1..n}
        FirstIndex(c) == CHOOSE j \in 1..n :
                             /\ columns[j] = c
                             /\ \A k \in 1..n : columns[k] = c => k >= j
    IN  [c \in Cols |-> row[FirstIndex(c)]]

\* dict(zip(columns, row)): a later column of the same name overwrites an earlier one
dict_zip(columns, row) ==
    LET n == Min(Len(columns), Len(row))
        Cols == {columns[j] : j \in 1..n}
        LastIndex(c) == CHOOSE j \in 1..n :
                            /\ columns[j] = c
                            /\ \A k \in 1..n : columns[k] = c => k <= j
    IN  [c \in Cols |-> row[LastIndex(c)]]

\* FileMakerConnection.close on the registry's connection of database: the handle
\* is closed when the instance still holds one (an instance is registered with its
\* handle, and only close takes it away), else nothing happens
FileMakerConnection_close(S, database) ==
    LET conn == S.connections[database]
    IN  IF conn # 0 /\ conn \in S.openHandles[database]
        THEN [S EXCEPT !.openHandles[database] = @ \ {conn},
                       !.closes[database] = @ + 1,
                       !.pending[database] = {}]
        ELSE S

\* FileMakerConnection.connect: the handle pyodbc.connect gives, or its error re-raised
FileMakerConnection_connect(S, database, ok) ==
    LET c == pyodbc_connect(S, database, ok)
    IN  IF c.ok THEN Return(c.S, c.handle)
        ELSE Raise(c.S, <<"pyodbc.Error", "connect">>)

\* self._connection.cursor(): one more cursor is open
cursor(S) == [S EXCEPT !.cursors = @ + 1, !.opened = @ + 1]

\* cursor.close()
cursor_close(S) == [S EXCEPT !.cursors = @ - 1, !.closed = @ + 1]

\* the try block r as it would be with cursor.close() as its last statement and
\* no finally: an exception leaves the block before the close
close_at_end(r) == IF r.ok THEN [r EXCEPT !.S = cursor_close(@)] ELSE r

\* try: r finally: cursor.close() -- the cursor is closed whether the block
\* returned or raised, and then the block's result or exception goes on
finally_close(r) == [r EXCEPT !.S = cursor_close(@)]

\* execute_query as it would be with cursor.fetchall(): the limit is not applied
execute_query_fetchall(S, db, conn, query, params, limit, ex) ==
    IF conn = 0 THEN Raise(S, <<"RuntimeError", "Not connected to database">>)
    ELSE
        LET S1 == [cursor(S) EXCEPT !.sql = query, !.params = params, !.limit = limit,
                                    !.ran = TRUE, !.execs = @ + 1]
        IN  finally_close(
            IF ~ex.ok THEN Raise(S1, <<"pyodbc.Error", "execute">>)
            ELSE
                LET S2 == executed(S1, db, query, S.tool)
                IN  IF ~IsSelect(query)
                    THEN Raise(S2, <<"pyodbc.ProgrammingError", "No results">>)
                    ELSE
                        LET columns == ex.desc
                            rows == Rows(ex)
                            results == [i \in 1..Len(rows) |-> dict_zip(columns, rows[i])]
                        IN  Return([S2 EXCEPT !.avail = ex.n], results))

\* execute_query as it would be if it bounded the rows in the statement text
execute_query_limit_clause(S, db, conn, query, params, limit, ex) ==
    IF conn = 0 THEN Raise(S, <<"RuntimeError", "Not connected to database">>)
    ELSE
        LET text == query \o <<" FETCH FIRST ", limit, " ROWS ONLY">>
            S1 == [cursor(S) EXCEPT !.sql = text, !.params = params, !.limit = limit,
                                    !.ran = TRUE, !.execs = @ + 1]
        IN  finally_close(
            IF ~ex.ok THEN Raise(S1, <<"pyodbc.Error", "execute">>)
            ELSE
                LET S2 == executed(S1, db, text, S.tool)
                IN  IF ~IsSelect(query)
                    THEN Raise(S2, <<"pyodbc.ProgrammingError", "No results">>)
                    ELSE
                        LET columns == ex.desc
                            rows == fetchmany(Rows(ex), limit)
                            results == [i \in 1..Len(rows) |-> dict_zip(columns, rows[i])]
                        IN  Return([S2 EXCEPT !.avail = ex.n], results))

\* FileMakerConnection.execute_query on the connection conn of database db
execute_query(S, db, conn, query, params, limit, ex) ==
    IF conn = 0 THEN Raise(S, <<"RuntimeError", "Not connected to database">>)
    ELSE
        LET S1 == [cursor(S) EXCEPT !.sql = query, !.params = params, !.limit = limit,
                                    !.ran = TRUE, !.execs = @ + 1]
        IN  finally_close(
            IF ~ex.ok THEN Raise(S1, <<"pyodbc.Error", "execute">>)
            ELSE
                LET S2 == executed(S1, db, query, S.tool)
                IN  IF ~IsSelect(query)
                    \* no result set: fetchmany raises
                    THEN Raise(S2, <<"pyodbc.ProgrammingError", "No results">>)
                    ELSE
                        LET columns == ex.desc
                            rows == fetchmany(Rows(ex), limit)
                            results == [i \in 1..Len(rows) |-> dict_zip(columns, rows[i])]
                        IN  Return([S2 EXCEPT !.avail = ex.n], results))

\* execute_update as it would be without its commit
execute_update_no_commit(S, db, conn, query, params, ex) ==
    IF conn = 0 THEN Raise(S, <<"RuntimeError", "Not connected to database">>)
    ELSE
        LET S1 == [cursor(S) EXCEPT !.sql = query, !.params = params, !.ran = TRUE,
                                    !.execs = @ + 1]
        IN  finally_close(
            IF ~ex.ok THEN Raise(S1, <<"pyodbc.Error", "execute">>)
            ELSE Return(executed(S1, db, query, S.tool), ex.n))

\* execute_update as it would be if it ran the statement a second time on an error
execute_update_retries(S, db, conn, query, params, ex) ==
    IF conn = 0 THEN Raise(S, <<"RuntimeError", "Not connected to database">>)
    ELSE
        LET S1 == [cursor(S) EXCEPT !.sql = query, !.params = params, !.ran = TRUE,
                                    !.execs = @ + 1]
        IN  finally_close(
            IF ~ex.ok THEN Raise([S1 EXCEPT !.execs = @ + 1], <<"pyodbc.Error", "execute">>)
            ELSE Return(commit(executed(S1, db, query, S.tool), db), ex.n))

\* FileMakerConnection.execute_update on the connection conn of database db
execute_update(S, db, conn, query, params, ex) ==
    IF conn = 0 THEN Raise(S, <<"RuntimeError", "Not connected to database">>)
    ELSE
        LET S1 == [cursor(S) EXCEPT !.sql = query, !.params = params, !.ran = TRUE,
                                    !.execs = @ + 1]
        IN  finally_close(
            IF ~ex.ok THEN Raise(S1, <<"pyodbc.Error", "execute">>)
            ELSE Return(commit(executed(S1, db, query, S.tool), db), ex.n))

\* FileMakerConnection.get_tables: the names of the catalog rows of type TABLE
get_tables(S, conn, tb) ==
    IF conn = 0 THEN Raise(S, <<"RuntimeError", "Not connected to database">>)
    ELSE
        LET S1 == cursor(S)
        IN  finally_close(
            IF ~tb.ok THEN Raise(S1, <<"pyodbc.Error", "tables">>)
            ELSE
                LET keep == SelectSeq(tb.rows, LAMBDA r : r.table_type = "TABLE")
                IN  Return(S1, [i \in 1..Len(keep) |-> keep[i].table_name]))

\* FileMakerConnection.get_columns
get_columns(S, conn, table_name, cb) ==
    IF conn = 0 THEN Raise(S, <<"RuntimeError", "Not connected to database">>)
    ELSE
        LET S1 == cursor(S)
        IN  finally_close(
            IF ~cb.ok THEN Raise(S1, <<"pyodbc.Error", "columns">>)
            ELSE Return(S1, [i \in 1..Len(cb.rows) |->
                                [name |-> cb.rows[i].column_name,
                                 type |-> cb.rows[i].type_name,
                                 size |-> cb.rows[i].column_size,
                                 nullable |-> (cb.rows[i].nullable = 1)]]))

\* get_connection as it would be without the registry lookup: it connects every time
get_connection_reconnects(S, database, ok) ==
    LET S0 == [S EXCEPT !.gc = @ \cup {database}]
        c == FileMakerConnection_connect(S0, database, ok)
    IN  IF c.ok
        THEN Return([c.S EXCEPT !.connections[database] = c.val,
                                !.returned[database] = @ \cup {c.val}],
                    c.val)
        ELSE c

\* get_connection as it would be if it did not store the connection it creates
get_connection_unregistered(S, database, ok) ==
    LET S0 == [S EXCEPT !.gc = @ \cup {database}]
    IN  IF S0.connections[database] = 0
        THEN
            LET c == FileMakerConnection_connect(S0, database, ok)
            IN  IF c.ok
                THEN Return([c.S EXCEPT !.returned[database] = @ \cup {c.val}], c.val)
                ELSE c
        ELSE Return([S0 EXCEPT !.returned[database] = @ \cup {S0.connections[database]}],
                    S0.connections[database])

\* get_connection as it would be if it stored the new instance before connecting it
get_connection_registers_first(S, database, ok) ==
    LET S0 == [S EXCEPT !.gc = @ \cup {database}]
    IN  IF S0.connections[database] = 0
        THEN
            LET conn == S0.connects[database] + 1
                c == FileMakerConnection_connect(S0, database, ok)
                S1 == [c.S EXCEPT !.connections[database] = conn]
            IN  IF c.ok
                THEN Return([S1 EXCEPT !.returned[database] = @ \cup {conn}], conn)
                ELSE Raise(S1, c.val)
        ELSE Return([S0 EXCEPT !.returned[database] = @ \cup {S0.connections[database]}],
                    S0.connections[database])

\* the body of `if database not in connections`: a new instance is connected and
\* stored under the name
create_connection(S, database, ok) ==
    LET c == FileMakerConnection_connect(S, database, ok)
    IN  IF c.ok
        THEN Return([c.S EXCEPT !.connections[database] = c.val,
                                !.returned[database] = @ \cup {c.val}],
                    c.val)
        ELSE c

\* create_server.get_connection: the registry's connection, created on first use
get_connection(S, database, ok) ==
    LET S0 == [S EXCEPT !.gc = @ \cup {database}]
    IN  IF S0.connections[database] = 0
        THEN
            LET c == FileMakerConnection_connect(S0, database, ok)
            IN  IF c.ok
                THEN Return([c.S EXCEPT !.connections[database] = c.val,
                                        !.returned[database] = @ \cup {c.val}],
                            c.val)
                ELSE c
        ELSE Return([S0 EXCEPT !.returned[database] = @ \cup {S0.connections[database]}],
                    S0.connections[database])

----------------------------------------------------------------------------
(* call_tool *)

\* Python's None, and the truth value of an optional string argument
None == "<None>"

Truthy(v) == v # None /\ v # ""

\* the first of keys (in the order the handler reads them) that arguments lacks, or None
FirstMissing(arguments, keys) ==
    IF \A i \in 1..Len(keys) : keys[i] \in DOMAIN arguments THEN None
    ELSE keys[CHOOSE i \in 1..Len(keys) :
                /\ keys[i] \notin DOMAIN arguments
                /\ \A j \in 1..(i - 1) : keys[j] \in DOMAIN arguments]

\* CallToolResult carrying one JSON text; raised = FALSE: it is returned to the caller
CallToolResult(body, isError) == [raised |-> FALSE, isError |-> isError, body |-> body]

\* an exception that leaves the handler
Escaped(e) == [raised |-> TRUE, isError |-> TRUE, body |-> [exception |-> e]]

\* the rows envelope as it would be with the driver's row total as row_count
RowsEnvelope_driver_total(r) ==
    CallToolResult([success |-> TRUE, row_count |-> r.S.avail, data |-> r.val], FALSE)

\* rows envelope of query, search_patients, get_appointments, get_transactions
RowsEnvelope(r) ==
    CallToolResult([success |-> TRUE, row_count |-> Len(r.val), data |-> r.val], FALSE)

\* name == "query"
call_query(S, arguments, ok, ex) ==
    LET miss == FirstMissing(arguments, <<"database", "sql">>)
    IN  IF miss # None THEN Raise(S, KeyError(miss))
        ELSE
            LET database == arguments["database"]
                sql == arguments["sql"]
                limit == Get(arguments, "limit", DefaultLimit)
                c == get_connection(S, database, ok)
            IN  IF ~c.ok THEN c
                ELSE
                    LET r == execute_query(c.S, database, c.val, sql, <<>>, limit, ex)
                    IN  IF ~r.ok THEN r ELSE Return(r.S, RowsEnvelope(r))

\* name == "list_tables"
call_list_tables(S, arguments, ok, tb) ==
    LET miss == FirstMissing(arguments, <<"database">>)
    IN  IF miss # None THEN Raise(S, KeyError(miss))
        ELSE
            LET database == arguments["database"]
                c == get_connection(S, database, ok)
            IN  IF ~c.ok THEN c
                ELSE
                    LET r == get_tables(c.S, c.val, tb)
                    IN  IF ~r.ok THEN r
                        ELSE Return(r.S, CallToolResult(
                                 [success |-> TRUE, database |-> database,
                                  tables |-> r.val], FALSE))

\* name == "describe_table"
call_describe_table(S, arguments, ok, cb) ==
    LET miss == FirstMissing(arguments, <<"database", "table">>)
    IN  IF miss # None THEN Raise(S, KeyError(miss))
        ELSE
            LET database == arguments["database"]
                table == arguments["table"]
                c == get_connection(S, database, ok)
            IN  IF ~c.ok THEN c
                ELSE
                    LET r == get_columns(c.S, c.val, table, cb)
                    IN  IF ~r.ok THEN r
                        ELSE Return(r.S, CallToolResult(
                                 [success |-> TRUE, database |-> database,
                                  table |-> table, columns |-> r.val], FALSE))

\* data.keys() and data.values() of an ordered dict
Keys(data) == [i \in 1..Len(data) |-> data[i][1]]

Values(data) == [i \in 1..Len(data) |-> data[i][2]]

\* the INSERT statement as it would be with "?" * len(data) for the placeholders
InsertSql_unjoined_placeholders(table, data) ==
    LET columns == Join(", ", [i \in 1..Len(data) |-> <<Keys(data)[i]>>])
        placeholders == [i \in 1..Len(data) |-> "?"]
    IN  <<"INSERT INTO ", table, " (">> \o columns \o <<") VALUES (">>
            \o placeholders \o <<")">>

\* the INSERT statement as it would be with the columns listed last key first
InsertSql_reversed_columns(table, data) ==
    LET n == Len(data)
        columns == Join(", ", [i \in 1..n |-> <<Keys(data)[n + 1 - i]>>])
        placeholders == Join(", ", [i \in 1..n |-> <<"?">>])
    IN  <<"INSERT INTO ", table, " (">> \o columns \o <<") VALUES (">>
            \o placeholders \o <<")">>

\* the INSERT statement of insert_record
InsertSql(table, data) ==
    LET columns == Join(", ", [i \in 1..Len(data) |-> <<Keys(data)[i]>>])
        placeholders == Join(", ", [i \in 1..Len(data) |-> <<"?">>])
    IN  <<"INSERT INTO ", table, " (">> \o columns \o <<") VALUES (">>
            \o placeholders \o <<")">>

\* name == "insert_record"
call_insert_record(S, arguments, ok, ex) ==
    LET miss == FirstMissing(arguments, <<"database", "table", "data">>)
    IN  IF miss # None THEN Raise(S, KeyError(miss))
        ELSE
            LET database == arguments["database"]
                table == arguments["table"]
                data == arguments["data"]
                values == Values(data)
                sql == InsertSql(table, data)
                c == get_connection([S EXCEPT !.built = TRUE], database, ok)
            IN  IF ~c.ok THEN c
                ELSE
                    LET r == execute_update(c.S, database, c.val, sql, values, ex)
                    IN  IF ~r.ok THEN r
                        ELSE Return(r.S, CallToolResult(
                                 [success |-> TRUE,
                                  message |-> <<"Inserted ", r.val, " record(s)">>], FALSE))

\* the UPDATE statement of update_record
UpdateSql(table, data, where) ==
    LET set_clause == Join(", ", [i \in 1..Len(data) |-> <<Keys(data)[i], " = ?">>])
    IN  <<"UPDATE ", table, " SET ">> \o set_clause \o <<" WHERE ", where>>

\* update_record as it would be if it read "where" after taking the connection
call_update_record_late_where(S, arguments, ok, ex) ==
    LET miss == FirstMissing(arguments, <<"database", "table", "data">>)
    IN  IF miss # None THEN Raise(S, KeyError(miss))
        ELSE
            LET database == arguments["database"]
                c == get_connection([S EXCEPT !.built = TRUE], database, ok)
            IN  IF ~c.ok THEN c
                ELSE IF "where" \notin DOMAIN arguments THEN Raise(c.S, KeyError("where"))
                ELSE
                    LET sql == UpdateSql(arguments["table"], arguments["data"],
                                         arguments["where"])
                        r == execute_update(c.S, database, c.val, sql,
                                            Values(arguments["data"]), ex)
                    IN  IF ~r.ok THEN r
                        ELSE Return(r.S, CallToolResult(
                                 [success |-> TRUE,
                                  message |-> <<"Updated ", r.val, " record(s)">>], FALSE))

\* name == "update_record"
call_update_record(S, arguments, ok, ex) ==
    LET miss == FirstMissing(arguments, <<"database", "table", "data", "where">>)
    IN  IF miss # None THEN Raise(S, KeyError(miss))
        ELSE
            LET database == arguments["database"]
                table == arguments["table"]
                data == arguments["data"]
                where == arguments["where"]
                values == Values(data)
                sql == UpdateSql(table, data, where)
                c == get_connection([S EXCEPT !.built = TRUE], database, ok)
            IN  IF ~c.ok THEN c
                ELSE
                    LET r == execute_update(c.S, database, c.val, sql, values, ex)
                    IN  IF ~r.ok THEN r
                        ELSE Return(r.S, CallToolResult(
                                 [success |-> TRUE,
                                  message |-> <<"Updated ", r.val, " record(s)">>], FALSE))

\* what the driver does for one database during list_all_databases
FanOutOutcomes ==
    {x \in [ok : BOOLEAN, tb : TablesOutcomes] :
        /\ ~x.ok => ~x.tb.ok
        /\ x.tb.ok => x.tb.rows # <<>>}

RECURSIVE list_all_loop_abort(_, _, _, _)
\* the loop as it would be without the try/except around each database
list_all_loop_abort(S, dbs, env, all_db_info) ==
    IF dbs = <<>> THEN Return(S, all_db_info)
    ELSE
        LET db == Head(dbs)
            c == get_connection(S, db, env[db].ok)
            r == IF c.ok THEN get_tables(c.S, c.val, env[db].tb) ELSE c
        IN  IF ~r.ok THEN r
            ELSE list_all_loop_abort(r.S, Tail(dbs), env,
                     (db :> [tables |-> r.val, count |-> Len(r.val)]) @@ all_db_info)

RECURSIVE list_all_loop(_, _, _, _)
\* for db in FILEMAKER_DATABASES: try get_connection / get_tables, except: error entry
list_all_loop(S, dbs, env, all_db_info) ==
    IF dbs = <<>> THEN Return(S, all_db_info)
    ELSE
        LET db == Head(dbs)
            c == get_connection(S, db, env[db].ok)
            r == IF c.ok THEN get_tables(c.S, c.val, env[db].tb) ELSE c
            entry == IF r.ok THEN [tables |-> r.val, count |-> Len(r.val)]
                     ELSE [error |-> r.val]
        IN  list_all_loop(r.S, Tail(dbs), env, (db :> entry) @@ all_db_info)

\* name == "list_all_databases"
call_list_all_databases(S, arguments, env) ==
    LET r == list_all_loop(S, FILEMAKER_DATABASES, env, EmptyDict)
    IN  IF ~r.ok THEN r
        ELSE Return(r.S, CallToolResult([success |-> TRUE, databases |-> r.val], FALSE))

\* search_patients on the database its arguments name, Patients by default
call_search_patients_named_database(S, arguments, ok, ex) ==
    LET miss == FirstMissing(arguments, <<"search_term">>)
    IN  IF miss # None THEN Raise(S, KeyError(miss))
        ELSE
            LET search_term == arguments["search_term"]
                database == Get(arguments, "database", "Patients")
                field == Get(arguments, "field", "\"Last Name\"")
                limit == Get(arguments, "limit", DefaultSearchLimit)
                sql == <<"SELECT", " \"Last Name\", \"First Name\", \"Middle Initial\", \"Street Address\", \"City\", \"State\", \"Zip\", \"Home Phone\", \"Work Phone\", \"birth date\" FROM Patients WHERE ",
                         field, " LIKE ?">>
                c == get_connection([S EXCEPT !.built = TRUE], database, ok)
            IN  IF ~c.ok THEN c
                ELSE
                    LET r == execute_query(c.S, database, c.val, sql,
                                           <<<<"%", search_term, "%">>>>, limit, ex)
                    IN  IF ~r.ok THEN r ELSE Return(r.S, RowsEnvelope(r))

\* name == "search_patients"
call_search_patients(S, arguments, ok, ex) ==
    LET miss == FirstMissing(arguments, <<"search_term">>)
    IN  IF miss # None THEN Raise(S, KeyError(miss))
        ELSE
            LET search_term == arguments["search_term"]
                field == Get(arguments, "field", "\"Last Name\"")
                limit == Get(arguments, "limit", DefaultSearchLimit)
                sql == <<"SELECT", " \"Last Name\", \"First Name\", \"Middle Initial\", \"Street Address\", \"City\", \"State\", \"Zip\", \"Home Phone\", \"Work Phone\", \"birth date\" FROM Patients WHERE ",
                         field, " LIKE ?">>
                c == get_connection([S EXCEPT !.built = TRUE], "Patients", ok)
            IN  IF ~c.ok THEN c
                ELSE
                    LET r == execute_query(c.S, "Patients", c.val, sql,
                                           <<<<"%", search_term, "%">>>>, limit, ex)
                    IN  IF ~r.ok THEN r ELSE Return(r.S, RowsEnvelope(r))

\* name == "get_appointments"
call_get_appointments(S, arguments, ok, ex) ==
    LET miss == FirstMissing(arguments, <<"date">>)
    IN  IF miss # None THEN Raise(S, KeyError(miss))
        ELSE
            LET date == arguments["date"]
                end_date == Get(arguments, "end_date", None)
                patient_id == Get(arguments, "patient_id", None)
                limit == Get(arguments, "limit", DefaultLimit)
                sql1 == IF Truthy(end_date)
                        THEN <<"SELECT", " * FROM Appointments WHERE dateappt BETWEEN ? AND ?">>
                        ELSE <<"SELECT", " * FROM Appointments WHERE dateappt = ?">>
                params1 == IF Truthy(end_date) THEN <<date, end_date>> ELSE <<date>>
                sql2 == IF Truthy(patient_id)
                        THEN sql1 \o <<" AND \"patient id#\" = ?">> ELSE sql1
                params == IF Truthy(patient_id) THEN params1 \o <<patient_id>> ELSE params1
                sql == sql2 \o <<" ORDER BY timeappt">>
                c == get_connection([S EXCEPT !.built = TRUE], "Appointments", ok)
            IN  IF ~c.ok THEN c
                ELSE
                    LET r == execute_query(c.S, "Appointments", c.val, sql, params, limit, ex)
                    IN  IF ~r.ok THEN r ELSE Return(r.S, RowsEnvelope(r))

\* conditions and params of get_transactions, one per filter whose value is truthy
TransactionFilters(patient_id, start_date, end_date) ==
    LET c1 == IF Truthy(patient_id)
              THEN <<[cond |-> "\"patient id#\" = ?", param |-> patient_id]>> ELSE <<>>
        c2 == IF Truthy(start_date)
              THEN <<[cond |-> "\"trans date\" >= ?", param |-> start_date]>> ELSE <<>>
        c3 == IF Truthy(end_date)
              THEN <<[cond |-> "\"trans date\" <= ?", param |-> end_date]>> ELSE <<>>
    IN  c1 \o c2 \o c3

\* the statement as it would be if WHERE were appended whatever the conditions
TransactionsSql_always_where(conditions) ==
    <<"SELECT", " * FROM Transactions">> \o <<" WHERE ">>
        \o Join(" AND ", [i \in 1..Len(conditions) |-> <<conditions[i]>>])

\* the SELECT statement of get_transactions
TransactionsSql(conditions) ==
    IF conditions # <<>>
    THEN <<"SELECT", " * FROM Transactions">> \o <<" WHERE ">>
            \o Join(" AND ", [i \in 1..Len(conditions) |-> <<conditions[i]>>])
    ELSE <<"SELECT", " * FROM Transactions">>

\* name == "get_transactions"
call_get_transactions(S, arguments, ok, ex) ==
    LET patient_id == Get(arguments, "patient_id", None)
        start_date == Get(arguments, "start_date", None)
        end_date == Get(arguments, "end_date", None)
        limit == Get(arguments, "limit", DefaultLimit)
        filters == TransactionFilters(patient_id, start_date, end_date)
        conditions == [i \in 1..Len(filters) |-> filters[i].cond]
        params == [i \in 1..Len(filters) |-> filters[i].param]
        sql == TransactionsSql(conditions)
        c == get_connection([S EXCEPT !.built = TRUE], "Transactions", ok)
    IN  IF ~c.ok THEN c
        ELSE
            LET r == execute_query(c.S, "Transactions", c.val, sql, params, limit, ex)
            IN  IF ~r.ok THEN r ELSE Return(r.S, RowsEnvelope(r))

\* the else branch as it would be without isError=True
unknown_tool_unflagged(S, name) ==
    Return(S, CallToolResult([error |-> <<"Unknown tool: ", name>>], FALSE))

\* the else branch: a name that is no tool
unknown_tool(S, name) ==
    Return(S, CallToolResult([error |-> <<"Unknown tool: ", name>>], TRUE))

\* the except branch of call_tool: any exception of the try body becomes an envelope
tool_error(r) ==
    [S |-> r.S, resp |-> CallToolResult([success |-> FALSE, error |-> r.val], TRUE)]

\* call_tool around the branch taken: the result r of the try body, or the except branch
call_tool(r) == IF r.ok THEN [S |-> r.S, resp |-> r.val] ELSE tool_error(r)

----------------------------------------------------------------------------
(* read_resource *)

URI_SCHEME == "filemaker://"

\* the try body of read_resource: the schema of every table of the database
read_schema(S, database, ok, tb, cb) ==
    LET c == get_connection(S, database, ok)
    IN  IF ~c.ok THEN c
        ELSE
            LET t == get_tables(c.S, c.val, tb)
            IN  IF ~t.ok THEN t
                ELSE IF t.val # <<>> /\ ~cb.ok
                THEN get_columns(t.S, c.val, t.val[1], cb)
                ELSE Return(t.S,
                        [database |-> database,
                         tables |-> [i \in 1..Len(t.val) |->
                                        [name |-> t.val[i],
                                         columns |-> get_columns(t.S, c.val, t.val[i], cb).val]]])

\* read_resource(uri): uri is <<scheme, rest>>
read_resource(S, uri, ok, tb, cb) ==
    IF uri[1] # URI_SCHEME
    THEN [S |-> S, resp |-> Escaped(<<"ValueError", "Invalid URI scheme">>)]
    ELSE
        LET r == read_schema(S, uri[2], ok, tb, cb)
        IN  IF r.ok THEN [S |-> r.S, resp |-> CallToolResult(r.val, FALSE)]
            ELSE [S |-> r.S, resp |-> CallToolResult([error |-> r.val], FALSE)]

----------------------------------------------------------------------------
(* The report job *)

\* FileMakerReports.get_connection: the handle itself is the registry entry
fm_get_connection(S, database, ok) ==
    LET S0 == [S EXCEPT !.gc = @ \cup {database}]
    IN  IF S0.fm_connections[database] = 0
        THEN
            LET c == pyodbc_connect(S0, database, ok)
            IN  IF c.ok
                THEN Return([c.S EXCEPT !.fm_connections[database] = c.handle,
                                        !.returned[database] = @ \cup {c.handle}],
                            c.handle)
                ELSE Raise(c.S, <<"pyodbc.Error", "connect">>)
        ELSE Return([S0 EXCEPT !.returned[database] = @ \cup {S0.fm_connections[database]}],
                    S0.fm_connections[database])

\* close_all as it would be without self.connections = {}
close_all_keeps_registry(S) ==
    [S EXCEPT !.openHandles = [db \in DbNames |->
                                  IF S.fm_connections[db] # 0
                                  THEN @[db] \ {S.fm_connections[db]} ELSE @[db]],
              !.closes = [db \in DbNames |->
                             IF S.fm_connections[db] # 0 THEN @[db] + 1 ELSE @[db]],
              !.pending = [db \in DbNames |->
                              IF S.fm_connections[db] # 0 THEN {} ELSE @[db]]]

\* FileMakerReports.close_all: close every handle held, then forget them all
close_all(S) ==
    [S EXCEPT !.openHandles = [db \in DbNames |->
                                  IF S.fm_connections[db] # 0
                                  THEN @[db] \ {S.fm_connections[db]} ELSE @[db]],
              !.closes = [db \in DbNames |->
                             IF S.fm_connections[db] # 0 THEN @[db] + 1 ELSE @[db]],
              !.pending = [db \in DbNames |->
                              IF S.fm_connections[db] # 0 THEN {} ELSE @[db]],
              !.fm_connections = [db \in DbNames |-> 0]]

\* the database each report of run_reports reads, in the order run_reports runs them
ReportDatabase(step) ==
    CASE step = "appointments" -> "Appointments"
      [] step = "patients" -> "Patients"
      [] step = "transactions" -> "Transactions"

NextReport(step) ==
    CASE step = "appointments" -> "patients"
      [] step = "patients" -> "transactions"
      [] step = "transactions" -> "sheets"

----------------------------------------------------------------------------
(* State *)

NoResponse == [raised |-> FALSE, isError |-> FALSE, body |-> EmptyDict]

NoRequest ==
    [handler |-> "none", name |-> "", arguments |-> EmptyDict, env |-> EmptyDict,
     resp |-> NoResponse, before |-> [db \in DbNames |-> 0], gc |-> {}, drv |-> {},
     built |-> FALSE, sql |-> <<>>, params |-> <<>>,
     limit |-> 0, ran |-> FALSE, avail |-> 0, execs |-> 0, commits |-> 0,
     opened |-> 0, closed |-> 0]

\* the program state at the start of a request for tool (or step) name
Start(name) ==
    [connections |-> connections, fm_connections |-> fm_connections,
     openHandles |-> openHandles, connects |-> connects, pending |-> pending,
     returned |-> returned, reconnects |-> reconnects, closes |-> closes,
     cursors |-> cursors,
     stored |-> stored,
     tool |-> name, before |-> connections, gc |-> {}, drv |-> {}, built |-> FALSE,
     sql |-> <<>>, params |-> <<>>, limit |-> 0, ran |-> FALSE, avail |-> 0,
     execs |-> 0, commits |-> 0, opened |-> 0, closed |-> 0]

\* the registries and the driver as the program state S has them
Apply(S) ==
    /\ connections' = S.connections
    /\ fm_connections' = S.fm_connections
    /\ openHandles' = S.openHandles
    /\ connects' = S.connects
    /\ pending' = S.pending
    /\ returned' = S.returned
    /\ reconnects' = S.reconnects
    /\ closes' = S.closes
    /\ cursors' = S.cursors

\* the state after a request: what the handler left, and the record of the request
Record(handler, name, arguments, env, out) ==
    /\ Apply(out.S)
    /\ last' = [handler |-> handler, name |-> name, arguments |-> arguments,
                env |-> env, resp |-> out.resp, before |-> out.S.before,
                gc |-> out.S.gc, drv |-> out.S.drv,
                built |-> out.S.built, sql |-> out.S.sql, params |-> out.S.params,
                limit |-> out.S.limit, ran |-> out.S.ran, avail |-> out.S.avail,
                execs |-> out.S.execs, commits |-> out.S.commits,
                opened |-> out.S.opened, closed |-> out.S.closed]

\* a request against a database whose content is not followed: whatever the
\* statement, the driver may give any result
Finish(handler, name, arguments, env, out) ==
    /\ Record(handler, name, arguments, env, out)
    /\ UNCHANGED <<stored, inserted, tasks, running>>

\* the requests of the event loop, and a request the loop has not received yet
TaskIds == 1..MaxTasks

NoTask ==
    [phase |-> "New", name |-> "", arguments |-> EmptyDict, miss |-> FALSE,
     conn |-> 0, trace |-> <<>>, responses |-> 0]

Init ==
    /\ program \in {"server", "reports"}
    /\ connections = [db \in DbNames |-> 0]
    /\ fm_connections = [db \in DbNames |-> 0]
    /\ openHandles = [db \in DbNames |-> {}]
    /\ connects = [db \in DbNames |-> 0]
    /\ pending = [db \in DbNames |-> {}]
    /\ returned = [db \in DbNames |-> {}]
    /\ reconnects = {}
    /\ closes = [db \in DbNames |-> 0]
    /\ cursors = 0
    /\ pc = "appointments"
    /\ last = NoRequest
    /\ stored = [db \in DbNames |-> <<>>]
    /\ inserted = [db \in DbNames |-> {}]
    /\ tasks = [t \in TaskIds |-> NoTask]
    /\ running = 0

\* the gateway alone: create_server has run
ServerInit ==
    /\ Init
    /\ program = "server"

----------------------------------------------------------------------------
(* Requests: the argument bundles a caller sends *)

\* bundles with key k, one per value; Opt: the key may be left out
Arg(k, Vals) == {k :> v : v \in Vals}

Opt(k, Vals) == {EmptyDict} \cup Arg(k, Vals)

Both(A, B) == {f @@ g : f \in A, g \in B}

\* f cut down to every key set that lacks at least one of the keys req
Lacking(f, req) ==
    {[k \in K |-> f[k]] : K \in {K \in SUBSET DOMAIN f : ~(req \subseteq K)}}

Limits == (-1)..MaxLimit

DataChoices == {<<>>, <<<<"k1", "v1">>>>, <<<<"k1", "v1">>, <<"k2", "v2">>>>}

\* an optional string filter: left out, empty, or a value
Filter(k, v) == Opt(k, {"", v})

\* the database names a caller passes to the tools that take one
DatabaseArgs == {"Patients", "Appointments"}

SelectText == <<"SELECT", " * FROM T1">>

DeleteText == <<"DELETE", " FROM T1">>

Arguments(name) ==
    CASE name = "query" ->
            Both(Arg("database", DatabaseArgs), Arg("sql", {SelectText}))
            \cup {[database |-> "Patients", sql |-> DeleteText]}
            \cup Both({[database |-> "Patients", sql |-> SelectText]}, Arg("limit", Limits))
            \cup Lacking([database |-> "Patients", sql |-> SelectText, limit |-> MaxLimit],
                         Required(name))
      [] name = "list_tables" ->
            Arg("database", DbNames) \cup {EmptyDict}
      [] name = "describe_table" ->
            Both(Arg("database", DatabaseArgs), Arg("table", {"T1"}))
            \cup Lacking([database |-> "Patients", table |-> "T1"], Required(name))
      [] name = "insert_record" ->
            Both(Both(Arg("database", DatabaseArgs), Arg("table", {"T1"})),
                 Arg("data", DataChoices))
            \cup Lacking([database |-> "Patients", table |-> "T1",
                          data |-> <<<<"k1", "v1">>>>], Required(name))
      [] name = "update_record" ->
            Both(Both(Both(Arg("database", DatabaseArgs), Arg("table", {"T1"})),
                      Arg("data", DataChoices)), Arg("where", {"id = 1"}))
            \cup Lacking([database |-> "Patients", table |-> "T1",
                          data |-> <<<<"k1", "v1">>>>, where |-> "id = 1"], Required(name))
      [] name = "list_all_databases" -> {EmptyDict}
      [] name = "search_patients" ->
            Both(Both(Arg("search_term", {"Smith"}), Opt("field", {"\"First Name\""})),
                 Opt("limit", {MaxLimit}))
            \cup {[search_term |-> "Smith", database |-> "Appointments"]}
            \cup Lacking([search_term |-> "Smith", field |-> "\"First Name\"",
                          limit |-> MaxLimit], Required(name))
      [] name = "get_appointments" ->
            Both(Both(Arg("date", {"2024-01-01"}), Filter("end_date", "2024-01-31")),
                 Filter("patient_id", "P1"))
            \cup {[date |-> "2024-01-01", limit |-> MaxLimit]}
            \cup {[date |-> "2024-01-01", database |-> "Patients"]}
            \cup Lacking([date |-> "2024-01-01", end_date |-> "2024-01-31",
                          patient_id |-> "P1"], Required(name))
      [] name = "get_transactions" ->
            Both(Both(Filter("patient_id", "P1"), Filter("start_date", "2024-01-01")),
                 Filter("end_date", "2024-01-31"))
            \cup Arg("limit", Limits)
            \cup {[database |-> "Patients"]}

\* names a caller may send that are no tool
UnknownNames == {"frobnicate", "Query", ""}

URIs == {<<URI_SCHEME, db>> : db \in DatabaseArgs} \cup {<<"http://", "Patients">>}

\* what pyodbc.connect may do for database db: it is only called when the registry
\* has no entry for db
ConnectOutcomes(db) ==
    IF db \in DbNames /\ connections[db] = 0 THEN BOOLEAN ELSE {TRUE}

\* the driver is not reached when a required argument is missing or the connect fails
NoExec == [ok |-> FALSE, desc |-> <<"a", "b">>, n |-> 0]

\* what the driver may do with the statement of tool name: every outcome in full
\* when the caller bounds the rows or sends no argument at all, else an error or
\* MaxRows rows
ExecChoices(name, arguments, ok, full) ==
    IF ~ok \/ ~(Required(name) \subseteq DOMAIN arguments) THEN {NoExec}
    ELSE IF "limit" \in DOMAIN arguments \/ arguments = EmptyDict
              \/ name \in {"query", "insert_record", "update_record"}
         THEN full
         ELSE {x \in full : ~x.ok \/ x.n = MaxRows}

\* catalog outcomes of read_resource: the columns are only read when there is a table
SchemaOutcomes ==
    {x \in [tb : TablesOutcomes, cb : ColumnsOutcomes] :
        (~x.tb.ok \/ x.tb.rows = <<>>) => (x.cb.ok /\ x.cb.rows = <<>>)}

----------------------------------------------------------------------------
(* Actions of the server: one request, handled to its response *)

Serving == program = "server" /\ pc # "done"

Query ==
    /\ Serving
    /\ UNCHANGED <<program, pc>>
    /\ \E arguments \in Arguments("query") :
       \E ok \in ConnectOutcomes(Get(arguments, "database", None)) :
       \E ex \in ExecChoices("query", arguments, ok, ExecOutcomes) :
          Finish("call_tool", "query", arguments, [ok |-> ok, ex |-> ex],
                 call_tool(call_query(Start("query"), arguments, ok, ex)))

ListTables ==
    /\ Serving
    /\ UNCHANGED <<program, pc>>
    /\ \E arguments \in Arguments("list_tables") :
       \E ok \in ConnectOutcomes(Get(arguments, "database", None)), tb \in TablesOutcomes :
          Finish("call_tool", "list_tables", arguments, [ok |-> ok, tb |-> tb],
                 call_tool(call_list_tables(Start("list_tables"), arguments, ok, tb)))

DescribeTable ==
    /\ Serving
    /\ UNCHANGED <<program, pc>>
    /\ \E arguments \in Arguments("describe_table") :
       \E ok \in ConnectOutcomes(Get(arguments, "database", None)), cb \in ColumnsOutcomes :
          Finish("call_tool", "describe_table", arguments, [ok |-> ok, cb |-> cb],
                 call_tool(call_describe_table(Start("describe_table"), arguments, ok, cb)))

InsertRecord ==
    /\ Serving
    /\ UNCHANGED <<program, pc>>
    /\ \E arguments \in Arguments("insert_record") :
       \E ok \in ConnectOutcomes(Get(arguments, "database", None)) :
       \E ex \in ExecChoices("insert_record", arguments, ok, PlainOutcomes) :
          Finish("call_tool", "insert_record", arguments, [ok |-> ok, ex |-> ex],
                 call_tool(call_insert_record(Start("insert_record"), arguments, ok, ex)))

UpdateRecord ==
    /\ Serving
    /\ UNCHANGED <<program, pc>>
    /\ \E arguments \in Arguments("update_record") :
       \E ok \in ConnectOutcomes(Get(arguments, "database", None)) :
       \E ex \in ExecChoices("update_record", arguments, ok, PlainOutcomes) :
          Finish("call_tool", "update_record", arguments, [ok |-> ok, ex |-> ex],
                 call_tool(call_update_record(Start("update_record"), arguments, ok, ex)))

ListAllDatabases ==
    /\ Serving
    /\ UNCHANGED <<program, pc>>
    /\ \E arguments \in Arguments("list_all_databases"),
          env \in [Range(FILEMAKER_DATABASES) -> FanOutOutcomes] :
          Finish("call_tool", "list_all_databases", arguments, env,
                 call_tool(call_list_all_databases(Start("list_all_databases"),
                                                   arguments, env)))

SearchPatients ==
    /\ Serving
    /\ UNCHANGED <<program, pc>>
    /\ \E arguments \in Arguments("search_patients"), ok \in ConnectOutcomes("Patients") :
       \E ex \in ExecChoices("search_patients", arguments, ok, PlainOutcomes) :
          Finish("call_tool", "search_patients", arguments, [ok |-> ok, ex |-> ex],
                 call_tool(call_search_patients(Start("search_patients"), arguments, ok, ex)))

GetAppointments ==
    /\ Serving
    /\ UNCHANGED <<program, pc>>
    /\ \E arguments \in Arguments("get_appointments"), ok \in ConnectOutcomes("Appointments") :
       \E ex \in ExecChoices("get_appointments", arguments, ok, PlainOutcomes) :
          Finish("call_tool", "get_appointments", arguments, [ok |-> ok, ex |-> ex],
                 call_tool(call_get_appointments(Start("get_appointments"), arguments, ok, ex)))

GetTransactions ==
    /\ Serving
    /\ UNCHANGED <<program, pc>>
    /\ \E arguments \in Arguments("get_transactions"), ok \in ConnectOutcomes("Transactions") :
       \E ex \in ExecChoices("get_transactions", arguments, ok, PlainOutcomes) :
          Finish("call_tool", "get_transactions", arguments, [ok |-> ok, ex |-> ex],
                 call_tool(call_get_transactions(Start("get_transactions"), arguments, ok, ex)))

UnknownTool ==
    /\ Serving
    /\ UNCHANGED <<program, pc>>
    /\ \E name \in UnknownNames, arguments \in {EmptyDict, [database |-> "Patients"]} :
          Finish("call_tool", name, arguments, EmptyDict, call_tool(unknown_tool(Start(name), name)))

ReadResource ==
    /\ Serving
    /\ UNCHANGED <<program, pc>>
    /\ \E uri \in URIs :
       \E ok \in ConnectOutcomes(uri[2]), sc \in SchemaOutcomes :
          Finish("read_resource", "read_resource", [uri |-> uri],
                 [ok |-> ok, tb |-> sc.tb, cb |-> sc.cb],
                 read_resource(Start("read_resource"), uri, ok, sc.tb, sc.cb))

\* main: server.run returns when the client closes the streams, and main returns
\* with it; nothing closes the connections of the registry
Shutdown ==
    /\ Serving
    /\ pc' = "done"
    /\ UNCHANGED <<program, connections, fm_connections, openHandles, connects,
                   pending, returned, reconnects, closes, cursors, last, stored,
                   inserted, tasks, running>>

----------------------------------------------------------------------------
(* Actions of the report job: run_reports, one report at a time *)

\* get_daily_appointments, get_patient_stats, get_transaction_summary: each takes
\* its connection and runs its statements.  An error of the connect, or of the
\* appointments statement, leaves run_reports through its finally; the other
\* reports catch the errors of their statements.
RunReport ==
    /\ program = "reports"
    /\ pc \in {"appointments", "patients", "transactions"}
    /\ \E ok \in BOOLEAN, ex \in PlainOutcomes :
          LET c == fm_get_connection(Start(pc), ReportDatabase(pc), ok)
              fails == ~c.ok \/ (pc = "appointments" /\ ~ex.ok)
              S1 == IF c.ok THEN [c.S EXCEPT !.ran = TRUE, !.avail = ex.n] ELSE c.S
              resp == IF fails THEN Escaped(<<"pyodbc.Error", pc>>) ELSE NoResponse
          IN  /\ Finish("run_reports", pc, EmptyDict, [ok |-> ok, ex |-> ex], [S |-> S1, resp |-> resp])
              /\ pc' = IF fails THEN "finally" ELSE NextReport(pc)
    /\ UNCHANGED program

\* the sheet update and the local copy: they succeed or raise, the finally follows
UpdateSheets ==
    /\ program = "reports"
    /\ pc = "sheets"
    /\ \E ok \in BOOLEAN :
          Finish("run_reports", pc, EmptyDict, [ok |-> ok],
                 [S |-> Start(pc),
                  resp |-> IF ok THEN NoResponse ELSE Escaped(<<"Exception", pc>>)])
    /\ pc' = "finally"
    /\ UNCHANGED program

\* finally: fm.close_all()
CloseAll ==
    /\ program = "reports"
    /\ pc = "finally"
    /\ Finish("run_reports", pc, EmptyDict, EmptyDict, [S |-> close_all(Start(pc)), resp |-> last.resp])
    /\ pc' = "done"
    /\ UNCHANGED program

----------------------------------------------------------------------------
(* Requests against a database whose table T1 is followed: an INSERT the driver
   accepts adds its row, a SELECT gives the rows its WHERE clause matches *)

\* the query a caller writes to read back data: one condition per key
SelectWhere(data) ==
    <<"SELECT", " * FROM T1", " WHERE ">>
        \o Join(" AND ", [i \in 1..Len(data) |-> <<data[i][1], " = ", data[i][2]>>])

\* the driver may raise whenever it is reached
Accepted(ok) == IF ok THEN BOOLEAN ELSE {FALSE}

InsertStored ==
    /\ Serving
    /\ UNCHANGED <<program, pc, tasks, running>>
    /\ \E database \in DatabaseArgs, data \in DataChoices :
       \E ok \in ConnectOutcomes(database) :
       \E accepted \in Accepted(ok) :
          LET arguments == [database |-> database, table |-> "T1", data |-> data]
              ex == [ok |-> accepted, desc |-> <<"a", "b">>,
                     n |-> IF accepted THEN 1 ELSE 0]
              out == call_tool(call_insert_record(Start("insert_record"),
                                                  arguments, ok, ex))
          IN  /\ Len(stored[database]) < MaxStored
              /\ Record("call_tool", "insert_record", arguments,
                        [ok |-> ok, ex |-> ex], out)
              /\ stored' = out.S.stored
              /\ inserted' = IF "success" \in DOMAIN out.resp.body /\ out.resp.body.success
                             THEN [inserted EXCEPT ![database] = @ \cup {data}]
                             ELSE inserted

QueryStored ==
    /\ Serving
    /\ UNCHANGED <<program, pc>>
    /\ \E database \in DatabaseArgs, data \in DataChoices \ {<<>>} :
       \E lim \in Opt("limit", Limits), ok \in ConnectOutcomes(database) :
       \E accepted \in Accepted(ok) :
          LET arguments == [database |-> database, sql |-> SelectWhere(data)] @@ lim
              rows == IF accepted THEN select(stored[database], SelectWhere(data))
                      ELSE <<>>
              ex == [ok |-> accepted, desc |-> TableColumns, n |-> Len(rows),
                     rows |-> rows]
          IN  Finish("call_tool", "query", arguments, [ok |-> ok, ex |-> ex],
                     call_tool(call_query(Start("query"), arguments, ok, ex)))

NextStored ==
    \/ InsertStored
    \/ QueryStored

SpecStored == ServerInit /\ [][NextStored]_vars

----------------------------------------------------------------------------
(* The event loop.  The client submits requests without waiting for the
   responses; the loop runs the coroutine call_tool of one request until that
   coroutine awaits or returns, and only then another one.  A request goes
   through call_tool in steps: the name is matched, the required arguments are
   read, get_connection looks the name up and connects on a miss, the statement
   runs, the envelope is returned. *)

\* the steps of call_tool after which the coroutine as it would be with an await
\* inside get_connection gives the loop away
Awaits_in_get_connection == {"Looked"}

\* the steps of call_tool after which the coroutine awaits: its body has no await
Awaits == {}

Terminal == {"Completed", "Failed"}

\* the requests a client sends to the loop
LoopRequests ==
    {[name |-> "query", arguments |-> [database |-> "Patients", sql |-> SelectText]],
     [name |-> "query", arguments |-> [database |-> "Patients"]],
     [name |-> "list_tables", arguments |-> [database |-> "Patients"]],
     [name |-> "list_tables", arguments |-> [database |-> "Appointments"]],
     [name |-> "list_tables", arguments |-> EmptyDict],
     [name |-> "frobnicate", arguments |-> [database |-> "Patients"]]}

\* the required arguments in the order the branch reads them
ReadOrder(name) == IF name = "query" THEN <<"database", "sql">> ELSE <<"database">>

\* request t may take a step: its coroutine holds the loop, or it awaits and the
\* loop is free
CanRun(t) == running = t \/ (running = 0 /\ tasks[t].phase \in Awaits)

\* request t, now the record task, is at step phase; the loop is free again when
\* the coroutine awaits there or has returned its response
Move(t, task, phase) ==
    /\ tasks' = [tasks EXCEPT ![t] =
                    [task EXCEPT !.phase = phase,
                                 !.trace = Append(@, phase),
                                 !.responses = IF phase \in Terminal THEN @ + 1 ELSE @]]
    /\ running' = IF phase \in Awaits \cup Terminal THEN 0 ELSE t

\* the coroutine of request t returns out
Respond(t, out) ==
    /\ Record("call_tool", tasks[t].name, tasks[t].arguments, EmptyDict, out)
    /\ Move(t, tasks[t], IF out.resp.isError THEN "Failed" ELSE "Completed")

Quiet ==
    UNCHANGED <<connections, fm_connections, openHandles, connects, pending,
                returned, reconnects, closes, cursors, last>>

\* a step of call_tool is a step of the running gateway
LoopStep ==
    /\ Serving
    /\ UNCHANGED <<program, pc, stored, inserted>>

\* the loop starts call_tool for a request
Receive(t) ==
    /\ LoopStep
    /\ running = 0
    /\ tasks[t].phase = "New"
    /\ \E req \in LoopRequests :
          Move(t, [tasks[t] EXCEPT !.name = req.name, !.arguments = req.arguments],
               "Received")
    /\ Quiet

\* the if/elif chain as it would be without its else branch: for a name that is
\* no tool call_tool ends without a CallToolResult
Dispatch_without_else(t) ==
    /\ LoopStep
    /\ CanRun(t)
    /\ tasks[t].phase = "Received"
    /\ IF tasks[t].name \in ToolNames
       THEN Move(t, tasks[t], "Dispatched") /\ Quiet
       ELSE /\ tasks' = [tasks EXCEPT ![t].phase = "Failed",
                                      ![t].trace = Append(@, "Failed")]
            /\ running' = 0
            /\ Quiet

\* the if/elif chain on name: a branch is taken, or the else branch answers
Dispatch(t) ==
    /\ LoopStep
    /\ CanRun(t)
    /\ tasks[t].phase = "Received"
    /\ IF tasks[t].name \in ToolNames
       THEN Move(t, tasks[t], "Dispatched") /\ Quiet
       ELSE Respond(t, call_tool(unknown_tool(Start(tasks[t].name), tasks[t].name)))

\* the branch reads its required arguments: arguments["database"], ...
Validate(t) ==
    /\ LoopStep
    /\ CanRun(t)
    /\ tasks[t].phase = "Dispatched"
    /\ LET miss == FirstMissing(tasks[t].arguments, ReadOrder(tasks[t].name))
       IN  IF miss = None
           THEN Move(t, tasks[t], "Validated") /\ Quiet
           ELSE Respond(t, call_tool(Raise(Start(tasks[t].name), KeyError(miss))))

\* get_connection: `if database not in connections`
Lookup(t) ==
    /\ LoopStep
    /\ CanRun(t)
    /\ tasks[t].phase = "Validated"
    /\ Move(t, [tasks[t] EXCEPT
                   !.miss = (connections[tasks[t].arguments["database"]] = 0)],
            "Looked")
    /\ Quiet

\* get_connection: the new connection on a miss, and `return connections[database]`
Connect(t) ==
    /\ LoopStep
    /\ CanRun(t)
    /\ tasks[t].phase = "Looked"
    /\ LET database == tasks[t].arguments["database"]
       IN  IF tasks[t].miss
           THEN \E ok \in BOOLEAN :
                   LET c == create_connection(Start(tasks[t].name), database, ok)
                   IN  IF c.ok
                       THEN /\ Apply(c.S)
                            /\ UNCHANGED last
                            /\ Move(t, [tasks[t] EXCEPT !.conn = c.val], "Connected")
                       ELSE Respond(t, call_tool(c))
           ELSE /\ Move(t, [tasks[t] EXCEPT !.conn = connections[database]], "Connected")
                /\ Quiet

\* the rest of the branch: the statement or the catalog call, and the envelope
Execute(t) ==
    /\ LoopStep
    /\ CanRun(t)
    /\ tasks[t].phase = "Connected"
    /\ LET S == Start(tasks[t].name)
           database == tasks[t].arguments["database"]
       IN  IF tasks[t].name = "query"
           THEN \E ex \in {x \in PlainOutcomes : ~x.ok \/ x.n = 1} :
                   LET r == execute_query(S, database, tasks[t].conn,
                                          tasks[t].arguments["sql"], <<>>,
                                          Get(tasks[t].arguments, "limit", DefaultLimit), ex)
                   IN  Respond(t, call_tool(IF r.ok THEN Return(r.S, RowsEnvelope(r))
                                            ELSE r))
           ELSE \E tb \in TablesOutcomes :
                   LET r == get_tables(S, tasks[t].conn, tb)
                   IN  Respond(t, call_tool(
                          IF r.ok
                          THEN Return(r.S, CallToolResult(
                                   [success |-> TRUE, database |-> database,
                                    tables |-> r.val], FALSE))
                          ELSE r))

NextLoop ==
    \/ \E t \in TaskIds : Receive(t)
    \/ \E t \in TaskIds : Dispatch(t)
    \/ \E t \in TaskIds : Validate(t)
    \/ \E t \in TaskIds : Lookup(t)
    \/ \E t \in TaskIds : Connect(t)
    \/ \E t \in TaskIds : Execute(t)

SpecLoop == ServerInit /\ [][NextLoop]_vars

----------------------------------------------------------------------------

Next ==
    \/ Query
    \/ ListTables
    \/ DescribeTable
    \/ InsertRecord
    \/ UpdateRecord
    \/ ListAllDatabases
    \/ SearchPatients
    \/ GetAppointments
    \/ GetTransactions
    \/ UnknownTool
    \/ ReadResource
    \/ Shutdown
    \/ RunReport
    \/ UpdateSheets
    \/ CloseAll

Spec == Init /\ [][Next]_vars

----------------------------------------------------------------------------
(* Properties *)

\* the last request was a call_tool request
IsCall == last.handler = "call_tool"

\* the JSON object of the last response, and whether it has key k
Body == last.resp.body

Has(k) == k \in DOMAIN Body

\* the envelope call_tool gives for an operation that failed
OrdinaryFailure == tool_error(Raise(Start(""), KeyError("database"))).resp

\* C1: get_connection, called any number of times with the same database name,
\* returns the same connection instance, and the driver connect for that name is
\* performed once: after a connect has succeeded for a name, no further connect is
\* made for it and every call returns the instance the registry holds.
C1_SameConnection ==
    \A db \in DbNames :
        /\ Cardinality(returned[db]) <= 1
        /\ connects[db] <= 1
        /\ db \notin reconnects
        /\ connections[db] # 0 => returned[db] = {connections[db]}
        /\ fm_connections[db] # 0 => returned[db] = {fm_connections[db]}

\* a request that took a connection the registry already held, without a connect
C1_Witness ==
    /\ IsCall
    /\ \E db \in last.gc :
          /\ db \notin last.drv
          /\ last.before[db] # 0
          /\ connections[db] = last.before[db]

\* C2: in every reachable state, after any sequence of operations, failed ones
\* included, at most one driver handle is open per database name.
C2_OneOpenHandle == \A db \in DbNames : Cardinality(openHandles[db]) <= 1

\* an operation that opened a connection and then failed
C2_Witness ==
    /\ IsCall
    /\ Has("success")
    /\ ~Body.success
    /\ \E db \in last.drv : openHandles[db] # {}

\* C3 as stated: for a name outside the catalog the envelope's error flag tells it
\* apart from the envelope of an ordinary failed operation, and no connection is
\* opened.
C3_FlagDistinguishes ==
    (IsCall /\ last.name \notin ToolNames) =>
        /\ last.resp.isError
        /\ last.resp.isError # OrdinaryFailure.isError
        /\ last.gc = {} /\ last.drv = {}
        /\ connections = last.before

\* C3 as amended: for a name outside the catalog the router returns an error
\* envelope with the error flag set, the flag the envelope of an ordinary failed
\* operation carries too.  No connection is opened and the registry is unchanged.
C3_UnknownTool ==
    (IsCall /\ last.name \notin ToolNames) =>
        /\ ~last.resp.raised
        /\ last.resp.isError
        /\ Has("error")
        /\ last.resp.isError = OrdinaryFailure.isError
        /\ last.gc = {} /\ last.drv = {}
        /\ connections = last.before

\* an unknown name sent while the registry holds a connection
C3_Witness ==
    /\ IsCall
    /\ last.name \notin ToolNames
    /\ \E db \in DbNames : connections[db] # 0

\* C4: a catalog operation whose arguments lack a required argument fails with a
\* success:false envelope before any SQL is built and before any connection
\* attempt: no get_connection call, no driver connect, registry unchanged.
C4_MissingRequired ==
    (IsCall /\ last.name \in ToolNames
            /\ ~(Required(last.name) \subseteq DOMAIN last.arguments)) =>
        /\ ~last.resp.raised
        /\ Has("success") /\ ~Body.success
        /\ Has("error")
        /\ ~last.built /\ ~last.ran
        /\ last.gc = {} /\ last.drv = {}
        /\ connections = last.before

\* update_record without its last required argument
C4_Witness ==
    /\ IsCall
    /\ last.name = "update_record"
    /\ DOMAIN last.arguments = {"database", "table", "data"}
    /\ Body.error = KeyError("where")

\* C5: execute_query returns at most limit rows, for every limit >= 0 and however
\* many rows the statement produces.
C5_LimitBound ==
    (IsCall /\ last.ran /\ Has("data") /\ last.limit >= 0) =>
        Len(Body.data) <= last.limit

\* a statement that produced more rows than the limit, cut to the limit
C5_Witness ==
    /\ IsCall
    /\ Has("data")
    /\ last.limit >= 0
    /\ last.avail > last.limit
    /\ Len(Body.data) = last.limit

\* C6: execute_update commits right after the statement executed and before it
\* returns: no statement of insert_record or update_record is ever left
\* uncommitted, and after a successful write nothing is pending on its connection.
C6_WriteCommitted ==
    /\ \A db \in DbNames : pending[db] \cap {"insert_record", "update_record"} = {}
    /\ (IsCall /\ last.name \in {"insert_record", "update_record"}
               /\ Has("success") /\ Body.success) =>
          (last.ran /\ pending[last.arguments["database"]] = {})

\* a successful update_record
C6_Witness ==
    /\ IsCall
    /\ last.name = "update_record"
    /\ Has("success") /\ Body.success
    /\ last.ran
    /\ last.sql[1] = "UPDATE "

\* whether database db failed during the last list_all_databases: its connect was
\* needed and refused, or its catalog call raised
FanOutFails(db) ==
    \/ last.before[db] = 0 /\ ~last.env[db].ok
    \/ ~last.env[db].tb.ok

\* the names of the base tables among the catalog rows the driver gave for db
FanOutTables(db) ==
    LET rows == last.env[db].tb.rows
        base == SelectSeq(rows, LAMBDA r : r.table_type = "TABLE")
    IN  [i \in 1..Len(base) |-> base[i].table_name]

\* C7: list_all_databases returns success:true with exactly one entry per catalog
\* database, whichever databases fail: a failing database's entry holds an error,
\* every other entry holds that database's table list.
C7_FanOut ==
    (IsCall /\ last.name = "list_all_databases") =>
        /\ ~last.resp.raised /\ ~last.resp.isError
        /\ Has("success") /\ Body.success
        /\ DOMAIN Body.databases = Range(FILEMAKER_DATABASES)
        /\ \A db \in Range(FILEMAKER_DATABASES) :
              IF FanOutFails(db)
              THEN DOMAIN Body.databases[db] = {"error"}
              ELSE /\ DOMAIN Body.databases[db] = {"tables", "count"}
                   /\ Body.databases[db].tables = FanOutTables(db)

\* a database that failed, followed in the catalog by one that gave its tables
C7_Witness ==
    /\ IsCall
    /\ last.name = "list_all_databases"
    /\ \E i, j \in 1..Len(FILEMAKER_DATABASES) :
          /\ i < j
          /\ "error" \in DOMAIN Body.databases[FILEMAKER_DATABASES[i]]
          /\ "tables" \in DOMAIN Body.databases[FILEMAKER_DATABASES[j]]

\* the keys under which a success envelope carries its result
ResultKeys == {"data", "tables", "columns", "message", "databases"}

\* the envelope shape: a boolean success, with the result or an error message
EnvelopeShape ==
    /\ Has("success")
    /\ Body.success \in BOOLEAN
    /\ Body.success => DOMAIN Body \cap ResultKeys # {}
    /\ ~Body.success => Has("error")

\* C8: every outcome of call_tool is an envelope with a boolean success
\* field and the result or an error message, and no exception escapes call_tool.
C8_EveryOutcome == IsCall => (~last.resp.raised /\ EnvelopeShape)

\* the tools whose envelope carries rows
RowTools == {"query", "search_patients", "get_appointments", "get_transactions"}

\* C9: an envelope that holds row_count holds the rows too, row_count is the
\* number of rows in data, and only the four row tools give one.
C9_RowCount ==
    (IsCall /\ Has("row_count")) =>
        /\ Has("data")
        /\ Body.row_count = Len(Body.data)
        /\ last.name \in RowTools

\* rows cut by the limit: row_count is below what the statement produced
C9_Witness ==
    /\ IsCall
    /\ Has("row_count")
    /\ Body.row_count < last.avail
    /\ Body.row_count > 0

\* the filters of get_transactions in the order the handler reads them
TransactionKeys == <<"patient_id", "start_date", "end_date">>

\* the predicate the statement carries for each filter
TransactionCondition(key) ==
    CASE key = "patient_id" -> "\"patient id#\" = ?"
      [] key = "start_date" -> "\"trans date\" >= ?"
      [] key = "end_date" -> "\"trans date\" <= ?"

\* whether the driver raised no error during the last single-statement request
DriverAccepted == last.env.ok /\ last.env.ex.ok

\* the statement and parameters of the last get_transactions are those of the
\* filters keys: SELECT * FROM Transactions, then WHERE and one predicate per
\* filter joined by AND, the filter values bound in the same order
StatementOf(keys) ==
    LET n == Len(keys)
    IN  /\ Len(last.sql) = IF n = 0 THEN 2 ELSE 2 + 2 * n
        /\ last.sql[1] = "SELECT" /\ last.sql[2] = " * FROM Transactions"
        /\ n > 0 => last.sql[3] = " WHERE "
        /\ \A i \in 1..n :
              /\ last.sql[2 + 2 * i] = TransactionCondition(keys[i])
              /\ i > 1 => last.sql[1 + 2 * i] = " AND "
        /\ last.params = [i \in 1..n |-> last.arguments[keys[i]]]

\* what get_transactions does whatever its filters: it reaches the driver, and
\* unless the driver raises it returns success with at most limit rows for a
\* limit >= 0, limit being 100 when the caller gives none
TransactionsOutcome ==
    /\ last.gc = {"Transactions"}
    /\ last.built
    /\ DriverAccepted =>
          /\ last.ran
          /\ last.limit = Get(last.arguments, "limit", DefaultLimit)
          /\ Has("success") /\ Body.success
          /\ last.limit >= 0 => Len(Body.data) <= last.limit

\* C10 as stated: get_transactions with no filter does not fail and runs a
\* statement with no WHERE clause and no parameter; with filters present the
\* statement carries one AND-joined predicate per filter present in the
\* arguments, the values bound in the same order.
C10_PresentFilters ==
    (IsCall /\ last.name = "get_transactions") =>
        /\ TransactionsOutcome
        /\ last.ran =>
              StatementOf(SelectSeq(TransactionKeys,
                                    LAMBDA k : k \in DOMAIN last.arguments))

\* C10 as amended: the same, for the filters present with a non-empty value; a
\* filter given as the empty string adds no predicate and no parameter.
C10_NonEmptyFilters ==
    (IsCall /\ last.name = "get_transactions") =>
        /\ TransactionsOutcome
        /\ last.ran =>
              StatementOf(SelectSeq(TransactionKeys,
                                    LAMBDA k : /\ k \in DOMAIN last.arguments
                                               /\ last.arguments[k] # ""))

\* get_transactions with one empty and two given filters, answered with rows
C10_Witness ==
    /\ IsCall
    /\ last.name = "get_transactions"
    /\ last.arguments = [patient_id |-> "P1", start_date |-> "",
                         end_date |-> "2024-01-31"]
    /\ Has("success") /\ Body.success
    /\ Len(last.params) = 2

\* the last request read back, on the database it was inserted into, data that
\* insert_record had reported inserted, and neither connect nor driver raised
ReadBack(data) ==
    /\ IsCall
    /\ last.name = "query"
    /\ data # <<>>
    /\ last.arguments["sql"] = SelectWhere(data)
    /\ data \in inserted[last.arguments["database"]]
    /\ DriverAccepted

\* a row of the envelope holds every value of data under its key
Contains(row, data) == \A j \in 1..Len(data) : row[data[j][1]] = data[j][2]

\* the envelope is a success and one of its rows holds the values of data
GivesBack(data) ==
    /\ Has("success") /\ Body.success
    /\ \E i \in 1..Len(Body.data) : Contains(Body.data[i], data)

\* C11 as stated: insert_record of a row, followed by query on the same database
\* and table with a predicate matching the inserted values, returns a row
\* containing the inserted values.
C11_RoundTrip == \A data \in DataChoices : ReadBack(data) => GivesBack(data)

\* C11 as amended: the same, for a query whose limit is at least 1 (the default
\* is 100).
C11_RoundTripLimit ==
    \A data \in DataChoices :
        (ReadBack(data) /\ Get(last.arguments, "limit", DefaultLimit) >= 1) =>
            GivesBack(data)

\* two rows were inserted, and the two-key row is read back under a limit of 1
C11_Witness ==
    /\ ReadBack(<<<<"k1", "v1">>, <<"k2", "v2">>>>)
    /\ last.limit = 1
    /\ Len(stored[last.arguments["database"]]) = 2
    /\ Body.row_count = 1

\* C12: close_all releases every connection the registry holds, and a second
\* call after it closes nothing and changes nothing: once run_reports has called
\* it, no handle is open, the registry is empty, every handle that was opened has
\* been closed once, and calling it again leaves the state as it is.  The same
\* for FileMakerConnection.close on a connection of the server's registry: a
\* second close finds no handle and does nothing.
C12_CloseAllTwice ==
    /\ (program = "reports" /\ pc = "done") =>
          /\ \A db \in DbNames :
                /\ fm_connections[db] = 0
                /\ openHandles[db] = {}
                /\ closes[db] = connects[db]
          /\ close_all(Start(pc)) = Start(pc)
    /\ program = "server" =>
          \A db \in DbNames :
             LET once == FileMakerConnection_close(Start(""), db)
                 twice == FileMakerConnection_close(once, db)
             IN  /\ connections[db] \notin once.openHandles[db]
                 /\ once.closes[db] = IF connections[db] # 0 THEN 1 ELSE 0
                 /\ twice = once

\* run_reports reached its finally with two connections and closed both
C12_Witness ==
    /\ program = "reports"
    /\ pc = "done"
    /\ closes["Appointments"] = 1
    /\ closes["Patients"] = 1

\* C13: every connection that was opened is closed exactly once at shutdown, in
\* the gateway and in the report job: when the program has ended no handle is
\* open and every database has as many closes as connects.
C13_ClosedAtShutdown ==
    pc = "done" =>
        \A db \in DbNames : openHandles[db] = {} /\ closes[db] = connects[db]

\* the driver refused the connect the last request made for database db
ConnectRefused(db) ==
    /\ db \in last.drv
    /\ IF last.name = "list_all_databases" THEN ~last.env[db].ok ELSE ~last.env.ok

\* the error pyodbc.connect raised, as get_connection lets it through
ConnectError == <<"pyodbc.Error", "connect">>

\* what the caller of the last request sees of a refused connect for db
ConnectErrorSurfaced(db) ==
    CASE last.handler = "run_reports" -> last.resp.raised
      [] last.handler = "read_resource" -> Body = [error |-> ConnectError]
      [] last.name = "list_all_databases" -> Body.databases[db] = [error |-> ConnectError]
      [] OTHER -> Body = [success |-> FALSE, error |-> ConnectError]

\* a refused connect fails with the connection error and adds no registry entry
RefusedLeavesNoEntry ==
    \A db \in DbNames :
        ConnectRefused(db) =>
            /\ connections[db] = 0
            /\ fm_connections[db] = 0
            /\ openHandles[db] = {}
            /\ ConnectErrorSurfaced(db)

\* every registry entry holds a handle the driver opened
EntriesAreOpen ==
    \A db \in DbNames :
        /\ connections[db] # 0 => connections[db] \in openHandles[db]
        /\ fm_connections[db] # 0 => fm_connections[db] \in openHandles[db]

\* a get_connection for a name without a registry entry calls the driver connect
FreshConnect ==
    \A db \in DbNames :
        (last' # last /\ db \in last'.gc /\ connections[db] = 0 /\ fm_connections[db] = 0)
            => db \in last'.drv

\* C14: a get_connection whose driver connect is refused fails with the connection
\* error and leaves the registry without an entry for that name, so that the next
\* get_connection for the name calls the driver connect again; every entry of the
\* registry holds a handle that was opened.
C14_FailedConnect ==
    /\ [](RefusedLeavesNoEntry /\ EntriesAreOpen)
    /\ [][FreshConnect]_vars

\* a tool whose connect was refused, while the registry holds another connection
C14_Witness ==
    /\ IsCall
    /\ last.name = "describe_table"
    /\ ConnectRefused("Patients")
    /\ connections["Patients"] = 0
    /\ connections["Appointments"] # 0

\* C15: when the driver raises during execute_update the statement has been
\* executed once, no commit is issued, and the router returns the driver's error
\* as a success:false envelope.
C15_WriteError ==
    (IsCall /\ last.name \in {"insert_record", "update_record"}
            /\ last.ran /\ ~last.env.ex.ok) =>
        /\ last.execs = 1
        /\ last.commits = 0
        /\ ~last.resp.raised
        /\ last.resp.isError
        /\ Body = [success |-> FALSE, error |-> <<"pyodbc.Error", "execute">>]
        /\ last.name \notin pending[last.arguments["database"]]

\* the driver raised on the UPDATE of an update_record
C15_Witness ==
    /\ IsCall
    /\ last.name = "update_record"
    /\ last.ran
    /\ ~last.env.ex.ok
    /\ last.sql[1] = "UPDATE "
    /\ last.execs = 1

\* the result set the driver produced for the statement of the last request
Produced == Rows(last.env.ex)

\* column j is the last column of its name in the description desc
LastOfName(desc, j) == \A k \in (j + 1)..Len(desc) : desc[k] # desc[j]

\* C18: execute_query returns exactly the first min(limit, available) rows of the
\* statement's result, in the driver's order, all of them when the statement
\* produces fewer than limit; and the text given to the driver is the caller's
\* text, with no limit clause added.
C18_FirstRows ==
    (IsCall /\ last.ran /\ Has("data") /\ last.limit >= 0) =>
        LET desc == last.env.ex.desc
            n == Min(last.limit, Len(Produced))
        IN  /\ Len(Body.data) = n
            /\ \A i \in 1..n : \A j \in 1..Len(desc) :
                  LastOfName(desc, j) => Body.data[i][desc[j]] = Produced[i][j]
            /\ last.name = "query" => last.sql = last.arguments["sql"]

\* a query whose statement produced rows, fewer than the limit: all are returned
C18_Witness ==
    /\ IsCall
    /\ last.name = "query"
    /\ Has("data")
    /\ last.avail > 0
    /\ last.avail < last.limit
    /\ Len(Body.data) = last.avail

\* the number of fragments ", ".join gives for n one-fragment parts
Joined(n) == IF n = 0 THEN 0 ELSE 2 * n - 1

\* C19: insert_record builds INSERT INTO <table> (<keys>) VALUES (<placeholders>)
\* from the keys of data in mapping order, with one placeholder per key, and
\* binds the values in the same order, for every data mapping, the empty one too.
C19_InsertStatement ==
    (IsCall /\ last.name = "insert_record" /\ last.ran) =>
        LET data == last.arguments["data"]
            n == Len(data)
            c == Joined(n)
        IN  /\ Len(last.sql) = 5 + 2 * c
            /\ last.sql[1] = "INSERT INTO "
            /\ last.sql[2] = last.arguments["table"]
            /\ last.sql[3] = " ("
            /\ last.sql[4 + c] = ") VALUES ("
            /\ last.sql[5 + 2 * c] = ")"
            /\ \A i \in 1..n :
                  /\ last.sql[2 + 2 * i] = data[i][1]
                  /\ last.sql[3 + c + 2 * i] = "?"
                  /\ i > 1 => (last.sql[1 + 2 * i] = ", " /\ last.sql[2 + c + 2 * i] = ", ")
            /\ Len(last.params) = n
            /\ \A i \in 1..n : last.params[i] = data[i][2]

\* an insert_record of a mapping with two keys, accepted by the driver
C19_Witness ==
    /\ IsCall
    /\ last.name = "insert_record"
    /\ last.ran
    /\ Len(last.arguments["data"]) = 2
    /\ Has("success") /\ Body.success

\* C20: each row of the result is the zip by position of the column names with
\* the row's values; when two columns have the same name the row holds under
\* that name the value of the last of them, and has one key fewer per duplicate.
C20_ZipLastWins ==
    (IsCall /\ last.ran /\ Has("data")) =>
        LET desc == last.env.ex.desc
            duplicates == {j \in 1..Len(desc) : ~LastOfName(desc, j)}
        IN  \A i \in 1..Len(Body.data) :
               /\ DOMAIN Body.data[i] = Range(desc)
               /\ Cardinality(DOMAIN Body.data[i]) = Len(desc) - Cardinality(duplicates)
               /\ \A j \in 1..Len(desc) :
                     LastOfName(desc, j) => Body.data[i][desc[j]] = Produced[i][j]

\* a result whose two columns have the same name: the row keeps the second value
C20_Witness ==
    /\ IsCall
    /\ last.ran
    /\ Has("data")
    /\ last.env.ex.desc = <<"a", "a">>
    /\ Len(Body.data) > 0
    /\ Body.data[1] = [c \in {"a"} |-> Cell(1, 2)]

\* request t is inside call_tool: received and not yet answered
InHandler(t) == tasks[t].phase \notin {"New"} \cup Terminal

\* request t has the connection get_connection returned and has not finished
UsesHandle(t) == tasks[t].phase = "Connected"

\* C16: requests are processed one at a time: at most one request is inside
\* call_tool, so no two requests use the same connection handle at the same
\* time, and first accesses to the same database name by requests submitted
\* together create one connection.
C16_OneAtATime ==
    /\ \A t, u \in TaskIds : (InHandler(t) /\ InHandler(u)) => t = u
    /\ \A t, u \in TaskIds :
          (UsesHandle(t) /\ UsesHandle(u) /\ tasks[t].conn = tasks[u].conn
             /\ tasks[t].arguments["database"] = tasks[u].arguments["database"]) => t = u
    /\ \A db \in DbNames : connects[db] <= 1 /\ Cardinality(openHandles[db]) <= 1

\* two requests for the same database, both submitted before either was answered,
\* both answered: the first missed the registry, the second found the connection
C16_Witness ==
    /\ tasks[1].phase = "Completed"
    /\ tasks[2].phase = "Completed"
    /\ tasks[1].arguments["database"] = tasks[2].arguments["database"]
    /\ tasks[1].miss # tasks[2].miss
    /\ tasks[1].conn = tasks[2].conn

\* the steps of a request up to its response: the steps inside get_connection
\* belong to the dispatched handler
Steps(t) ==
    SelectSeq(tasks[t].trace, LAMBDA s : s \notin {"Looked", "Connected"})

\* the steps of request t follow the order of the sequence order, and "Failed"
\* may end them anywhere: the steps are a prefix of order, or such a prefix
\* followed by "Failed"
FollowsOrder(t, order) ==
    LET s == Steps(t)
        n == Len(s)
    IN  \/ n <= Len(order) /\ s = SubSeq(order, 1, n)
        \/ /\ n >= 1 /\ n - 1 < Len(order)
           /\ s[n] = "Failed"
           /\ SubSeq(s, 1, n - 1) = SubSeq(order, 1, n - 1)

\* every request gives one response, when it ends, and none before
OneResponse(t) ==
    tasks[t].responses = IF tasks[t].phase \in Terminal THEN 1 ELSE 0

\* C17 as stated: a request goes through Received, Validated, Dispatched,
\* Completed in that order, or to Failed; Completed and Failed are terminal and
\* give exactly one response; the required arguments are validated before a
\* handler is dispatched.
C17_ValidatedFirst ==
    \A t \in TaskIds :
        /\ FollowsOrder(t, <<"Received", "Validated", "Dispatched", "Completed">>)
        /\ OneResponse(t)

\* C17 as amended: a request goes through Received, Dispatched, Validated,
\* Completed in that order, or to Failed from the dispatch, the validation or the
\* handler's work; Completed and Failed are terminal and give exactly one
\* response; the handler is selected by name before it reads its required
\* arguments.
C17_DispatchedFirst ==
    \A t \in TaskIds :
        /\ FollowsOrder(t, <<"Received", "Dispatched", "Validated", "Completed">>)
        /\ OneResponse(t)

\* one request completed, and one failed where the branch reads its arguments
C17_Witness ==
    /\ Steps(1) = <<"Received", "Dispatched", "Validated", "Completed">>
    /\ Steps(2) = <<"Received", "Dispatched", "Failed">>
    /\ tasks[2].name \in ToolNames

----------------------------------------------------------------------------
\* C21: after any sequence of router operations, succeeding or failing, no
\* connection holds a change that was executed but not committed, whichever
\* operation sent the statement, query with a data-changing statement included.
C21_NothingPending ==
    \A db \in DbNames : pending[db] = {}

----------------------------------------------------------------------------
\* the tools that take the database name from their arguments, and the tools
\* whose database is fixed
ArgumentTools == {"query", "list_tables", "describe_table", "insert_record", "update_record"}

PinnedTools ==
    [search_patients |-> "Patients", get_appointments |-> "Appointments",
     get_transactions |-> "Transactions"]

\* the one database the request r may touch
OwnDatabase(r) ==
    IF r.name \in DOMAIN PinnedTools THEN PinnedTools[r.name]
    ELSE Get(r.arguments, "database", None)

\* what the gateway and the driver hold for database db
Entry(db) ==
    <<connections[db], openHandles[db], connects[db], pending[db], returned[db],
      closes[db]>>

----------------------------------------------------------------------------
\* C23: every cursor that execute_query, execute_update, get_tables or get_columns
\* opened during a request was closed before the request ended, whether the call
\* returned or raised, and between requests no cursor is open on any connection.
C23_CursorsClosed ==
    /\ cursors = 0
    /\ last.opened = last.closed

\* a write whose statement the driver refused: the cursor it opened was closed
C23_Witness ==
    /\ IsCall
    /\ last.name = "insert_record"
    /\ Has("success") /\ ~Body.success
    /\ last.ran
    /\ last.opened = 1
    /\ last.closed = 1

====
